---- MODULE Spec2Model ----
(***************************************************************************)
(* A model of the proteinogenic crate (src/src/lib.rs): the Protein        *)
(* aggregate (sequence, cyclization, cross-link registry, marker counter), *)
(* Protein::cross_link, Protein::visit and the per-residue recipes of      *)
(* Protein::visit_residue.  The follower is modelled as a recorder of the  *)
(* instructions it receives (root / extend / join / pop).                  *)
(***************************************************************************)
EXTENDS Integers, Sequences, FiniteSets, TLC

VARIABLES
    sequence,        \* Protein.sequence: a sequence of AminoAcid
    cyclization,     \* Protein.cyclization
    cross_links,     \* Protein.cross_links: HashMap<u16, (Rnum, CrossLink)>
    cross_link_num,  \* Protein.cross_link_num: u16
    pc,              \* "construct" while the Protein is being built, "done" once visit consumed it
    out,             \* the instructions the follower received during visit
    res,             \* the value visit returned
    call,            \* history: the argument of the last cross_link call
    ret,             \* history: what the last cross_link call returned
    pre,             \* history: cross_links as it was before the last cross_link call
    preNum,          \* history: cross_link_num as it was before the last cross_link call
    nCalls,          \* history: number of cross_link calls counted against the call bound
    nOk              \* history: number of cross_link calls that returned Ok

vars == <<sequence, cyclization, cross_links, cross_link_num, pc, out, res,
          call, ret, pre, preNum, nCalls, nOk>>

----------------------------------------------------------------------------
(* Bounds of the model *)

\* registry specification: at most MaxCalls cross_link calls with arbitrary
\* links, after any number of calls with links between fresh positions
MaxCalls == 2
\* traversal specification: sequences of at most MaxLen residues, link
\* endpoints in 1..MaxVisitPos, at most MaxVisitCalls cross_link calls
MaxLen == 2
MaxVisitPos == 3
MaxVisitCalls == 1
\* the bridge specification: sequences of up to PairLen residues, up to
\* PairCalls cross_link calls over their positions
PairLen == 3
PairCalls == 2

(* Program constants *)

\* Protein::new: cross_link_num starts at 3
FirstCrossLinkNum == 3
\* the largest u16 for which Rnum::try_from succeeds (Rnum::R0 .. Rnum::R99)
RnumMax == 99
\* u16 arithmetic
U16 == 65536

----------------------------------------------------------------------------
(* Types *)

AminoAcid ==
    {"Arg", "His", "Lys", "Asp", "Glu", "Ser", "Thr", "Asn", "Gln", "Gly",
     "Pro", "Cys", "Sec", "Ala", "Val", "Ile", "Leu", "Met", "Phe", "Tyr",
     "Trp", "Pyl", "Dha", "Dhb"}

\* Err(UnknownResidue)
UnknownResidue == "UnknownResidue"

\* the characters given to from_code1: the capital letters
Code1Chars ==
    {"A", "B", "C", "D", "E", "F", "G", "H", "I", "J", "K", "L", "M",
     "N", "O", "P", "Q", "R", "S", "T", "U", "V", "W", "X", "Y", "Z"}

\* AminoAcid::from_code1(code)
from_code1(code) ==
    CASE code = "R" -> "Arg"
      [] code = "H" -> "His"
      [] code = "K" -> "Lys"
      [] code = "D" -> "Asp"
      [] code = "E" -> "Glu"
      [] code = "S" -> "Ser"
      [] code = "T" -> "Thr"
      [] code = "N" -> "Asn"
      [] code = "Q" -> "Gln"
      [] code = "G" -> "Gly"
      [] code = "P" -> "Pro"
      [] code = "C" -> "Cys"
      [] code = "U" -> "Sec"
      [] code = "A" -> "Ala"
      [] code = "V" -> "Val"
      [] code = "I" -> "Ile"
      [] code = "L" -> "Leu"
      [] code = "M" -> "Met"
      [] code = "F" -> "Phe"
      [] code = "Y" -> "Tyr"
      [] code = "W" -> "Trp"
      [] code = "O" -> "Pyl"
      [] OTHER -> UnknownResidue

CrossLinkKinds == {"Cystine", "Lan", "MeLan"}

\* CrossLink::Cystine(i, j) | Lan(i, j) | MeLan(i, j)
CrossLink(k, a, b) == [kind |-> k, i |-> a, j |-> b]

CyclizationModes == {"None", "HeadToTail"}

\* the values of the history variables before any call
NoCall == [kind |-> "none", i |-> 0, j |-> 0]
NoRet == [tag |-> "none", pos |-> 0]

\* Result<&mut Self, Error> of cross_link; "panic" is the unwinding of unwrap()
RetOk == [tag |-> "Ok", pos |-> 0]
DuplicateCrossLink(p) == [tag |-> "DuplicateCrossLink", pos |-> p]
TooManyCrossLinks == [tag |-> "TooManyCrossLinks", pos |-> 0]
Panic == [tag |-> "panic", pos |-> 0]

\* Result<(), Error> of visit
NoRes == [tag |-> "none", pos |-> 0, aa |-> "none", link |-> NoCall]
ResOk == [tag |-> "Ok", pos |-> 0, aa |-> "none", link |-> NoCall]
InvalidCrossLink(p, aa, link) ==
    [tag |-> "InvalidCrossLink", pos |-> p, aa |-> aa, link |-> link]

----------------------------------------------------------------------------
(* HashMap<u16, (Rnum, CrossLink)> as a function whose domain is the set of keys *)

EmptyMap == [k \in {} |-> k]

\* HashMap::get(&k).is_some()
HasKey(m, k) == k \in DOMAIN m

\* HashMap::insert(k, v): the value is stored whether or not the key was
\* present (the old value is what insert returns)
HashMapInsert(m, k, v) ==
    [x \in (DOMAIN m) \cup {k} |-> IF x = k THEN v ELSE m[x]]

\* Rnum::try_from(u16): -1 stands for Err
NoRnum == 0 - 1
RnumTryFrom(n) == IF n <= RnumMax THEN n ELSE NoRnum

----------------------------------------------------------------------------
(* Protein::cross_link *)

\* cross_link testing the second endpoint before the first
CrossLinkOutcomeSecondFirst(m, n, x) ==
    LET rnum == RnumTryFrom(n)
        val == [rnum |-> rnum, link |-> x]
        m1 == HashMapInsert(m, x.j, val)
        m2 == HashMapInsert(m1, x.i, val)
    IN  IF rnum = NoRnum
          THEN [map |-> m, num |-> n, ret |-> Panic]
        ELSE IF HasKey(m, x.j)
          THEN [map |-> m1, num |-> n, ret |-> DuplicateCrossLink(x.j)]
        ELSE IF HasKey(m1, x.i)
          THEN [map |-> m2, num |-> n, ret |-> DuplicateCrossLink(x.i)]
        ELSE [map |-> m2, num |-> (n + 1) % U16, ret |-> RetOk]

\* cross_link incrementing the counter before the insertions and returning
\* early without taking the increment back
CrossLinkOutcomeEager(m, n, x) ==
    LET rnum == RnumTryFrom(n)
        val == [rnum |-> rnum, link |-> x]
        m1 == HashMapInsert(m, x.i, val)
        m2 == HashMapInsert(m1, x.j, val)
    IN  IF rnum = NoRnum
          THEN [map |-> m, num |-> n, ret |-> Panic]
        ELSE IF HasKey(m, x.i)
          THEN [map |-> m1, num |-> (n + 1) % U16, ret |-> DuplicateCrossLink(x.i)]
        ELSE IF HasKey(m1, x.j)
          THEN [map |-> m2, num |-> (n + 1) % U16, ret |-> DuplicateCrossLink(x.j)]
        ELSE [map |-> m2, num |-> (n + 1) % U16, ret |-> RetOk]

\* the outcome of cross_link(x) on registry m with counter n:
\* the new registry, the new counter and the returned value
CrossLinkOutcome(m, n, x) ==
    LET rnum == RnumTryFrom(n)
        val == [rnum |-> rnum, link |-> x]
        m1 == HashMapInsert(m, x.i, val)
        m2 == HashMapInsert(m1, x.j, val)
    IN  IF rnum = NoRnum
          THEN [map |-> m, num |-> n, ret |-> Panic]
        ELSE IF HasKey(m, x.i)
          THEN [map |-> m1, num |-> n, ret |-> DuplicateCrossLink(x.i)]
        ELSE IF HasKey(m1, x.j)
          THEN [map |-> m2, num |-> n, ret |-> DuplicateCrossLink(x.j)]
        ELSE [map |-> m2, num |-> (n + 1) % U16, ret |-> RetOk]

cross_link(x) ==
    LET o == CrossLinkOutcome(cross_links, cross_link_num, x)
    IN  /\ pc = "construct"
        /\ cross_links' = o.map
        /\ cross_link_num' = o.num
        /\ ret' = o.ret
        /\ call' = x
        /\ pre' = cross_links
        /\ preNum' = cross_link_num
        /\ nOk' = IF o.ret = RetOk THEN nOk + 1 ELSE nOk
        /\ UNCHANGED <<sequence, cyclization, pc, out, res>>

\* the links a caller may pass, with endpoints in 1..n
Links(n) == {CrossLink(k, a, b) : k \in CrossLinkKinds, a \in 1..n, b \in 1..n}

----------------------------------------------------------------------------
(* The instructions of purr::walk::Follower, as the follower receives them *)

Root(a) == [op |-> "root", bond |-> "none", atom |-> a, num |-> 0]
Extend(b, a) == [op |-> "extend", bond |-> b, atom |-> a, num |-> 0]
Join(b, r) == [op |-> "join", bond |-> b, atom |-> "none", num |-> r]
Pop(n) == [op |-> "pop", bond |-> "none", atom |-> "none", num |-> n]

\* AtomKind values used by the recipes
AliphaticC == "C"
AliphaticN == "N"
AliphaticO == "O"
AliphaticS == "S"
AromaticC == "c"
AromaticN == "n"
CARBON_TH2 == "[C@@H]"
CARBON_TH1 == "[C@H]"
BracketSe == "[Se]"

\* follower.extend(BondKind::Elided, a)
El(a) == Extend("Elided", a)
\* follower.extend(BondKind::Double, a)
Db(a) == Extend("Double", a)
\* follower.join(BondKind::Elided, r)
Jn(r) == Join("Elided", r)

----------------------------------------------------------------------------
(* Protein::visit_residue: the arms of `match aa` *)

ArmDhb == <<Extend("Up", AliphaticC), Db(AliphaticC), Extend("Down", AliphaticC), Pop(2)>>

ArmDha == <<El(AliphaticC), Db(AliphaticC), Pop(1)>>

ArmPyl ==
    <<El(CARBON_TH2), El(AliphaticC), El(AliphaticC), El(AliphaticC), El(AliphaticC),
      El(AliphaticN), El(AliphaticC), Db(AliphaticO), Pop(1), El(CARBON_TH1), Jn(1),
      El(CARBON_TH1), El(AliphaticC), Pop(1), El(AliphaticC), El(AliphaticC),
      Db(AliphaticN), Jn(1), Pop(11)>>

ArmGly == <<El(AliphaticC)>>

ArmAla == <<El(CARBON_TH2), El(AliphaticC), Pop(1)>>

\* a Pro arm that never closes its ring: ring 1 stays open after the residue
ArmProOpen ==
    <<Jn(1), El(AliphaticC), El(AliphaticC), El(AliphaticC), El(CARBON_TH1)>>

ArmPro ==
    <<Jn(1), El(AliphaticC), El(AliphaticC), El(AliphaticC), El(CARBON_TH1), Jn(1)>>

ArmVal ==
    <<El(CARBON_TH2), El(AliphaticC), El(AliphaticC), Pop(1), El(AliphaticC), Pop(2)>>

ArmLeu ==
    <<El(CARBON_TH2), El(AliphaticC), El(AliphaticC), El(AliphaticC), Pop(1),
      El(AliphaticC), Pop(3)>>

ArmMet ==
    <<El(CARBON_TH2), El(AliphaticC), El(AliphaticC), El(AliphaticS), El(AliphaticC),
      Pop(4)>>

ArmPhe ==
    <<El(CARBON_TH2), El(AliphaticC), El(AromaticC), Jn(1), El(AromaticC),
      El(AromaticC), El(AromaticC), El(AromaticC), El(AromaticC), Jn(1), Pop(7)>>

ArmTyr ==
    <<El(CARBON_TH2), El(AliphaticC), El(AromaticC), Jn(1), El(AromaticC),
      El(AromaticC), El(AromaticC), El(AliphaticO), Pop(1), El(AromaticC),
      El(AromaticC), Jn(1), Pop(7)>>

\* a Cys arm without the `if *i == index` guard: both ends of a Lan add a sulfur
ArmCysLanBothSulfur(index, links) ==
    <<El(CARBON_TH2), El(AliphaticC)>> \o
    ( IF ~HasKey(links, index)
        THEN <<El(AliphaticS), Pop(2)>>
      ELSE <<El(AliphaticS), Jn(links[index].rnum), Pop(2)>> )

\* the Cys arm: `match cross_links.get(&index)` after the alpha and beta carbons
ArmCys(index, links) ==
    <<El(CARBON_TH2), El(AliphaticC)>> \o
    ( IF ~HasKey(links, index)
        THEN <<El(AliphaticS), Pop(2)>>
      ELSE LET e == links[index] IN
        IF e.link.kind = "Cystine"
          THEN <<El(AliphaticS), Jn(e.rnum), Pop(2)>>
        ELSE IF e.link.kind = "Lan" /\ e.link.i = index
          THEN <<El(AliphaticS), Jn(e.rnum), Pop(2)>>
        ELSE IF e.link.kind = "Lan"
          THEN <<Jn(e.rnum), Pop(1)>>
        ELSE <<El(AliphaticS), Jn(e.rnum), Pop(2)>> )

\* a Ser arm that retreats one atom too many, to the backbone nitrogen
ArmSerPopThree == <<El(CARBON_TH2), El(AliphaticC), El(AliphaticO), Pop(3)>>

ArmSer == <<El(CARBON_TH2), El(AliphaticC), El(AliphaticO), Pop(2)>>

ArmSec == <<El(CARBON_TH2), El(AliphaticC), El(BracketSe), Pop(2)>>

\* the Thr arm returns Err for a registered link that is not MeLan, after
\* the alpha and beta carbons were sent to the follower
ThrFails(index, links) == HasKey(links, index) /\ links[index].link.kind # "MeLan"

ArmThr(index, links) ==
    <<El(CARBON_TH2), El(CARBON_TH2)>> \o
    ( IF ~HasKey(links, index)
        THEN <<El(AliphaticC), Pop(1), El(AliphaticO), Pop(2)>>
      ELSE IF links[index].link.kind = "MeLan"
        THEN <<Jn(links[index].rnum), El(AliphaticC), Pop(2)>>
      ELSE << >> )

ArmAsn ==
    <<El(CARBON_TH2), El(AliphaticC), El(AliphaticC), Db(AliphaticO), Pop(1),
      El(AliphaticN), Pop(3)>>

ArmGln ==
    <<El(CARBON_TH2), El(AliphaticC), El(AliphaticC), El(AliphaticC), Db(AliphaticO),
      Pop(1), El(AliphaticN), Pop(4)>>

ArmArg ==
    <<El(CARBON_TH2), El(AliphaticC), El(AliphaticC), El(AliphaticC), El(AliphaticN),
      El(AliphaticC), Db(AliphaticN), Pop(1), El(AliphaticN), Pop(6)>>

ArmLys ==
    <<El(CARBON_TH2), El(AliphaticC), El(AliphaticC), El(AliphaticC), El(AliphaticC),
      El(AliphaticN), Pop(5)>>

ArmHis ==
    <<El(CARBON_TH2), El(AliphaticC), El(AromaticC), Jn(1), El(AromaticC),
      El(AromaticN), El(AromaticC), El(AliphaticN), Jn(1), Pop(6)>>

ArmAsp ==
    <<El(CARBON_TH2), El(AliphaticC), El(AliphaticC), Db(AliphaticO), Pop(1),
      El(AliphaticO), Pop(3)>>

ArmGlu ==
    <<El(CARBON_TH2), El(AliphaticC), El(AliphaticC), El(AliphaticC), Db(AliphaticO),
      Pop(1), El(AliphaticO), Pop(4)>>

ArmIle ==
    <<El(CARBON_TH2), El(CARBON_TH2), El(AliphaticC), Pop(1), El(AliphaticC),
      El(AliphaticC), Pop(3)>>

ArmTrp ==
    <<El(CARBON_TH2), El(AliphaticC), El(AromaticC), Jn(1), El(AromaticC),
      El(AromaticN), El(AromaticC), Jn(2), El(AromaticC), Jn(1), El(AromaticC),
      El(AromaticC), El(AromaticC), El(AromaticC), Jn(2), Pop(10)>>

\* `match aa { ... }`
Arm(aa, index, links) ==
    CASE aa = "Dhb" -> ArmDhb
      [] aa = "Dha" -> ArmDha
      [] aa = "Pyl" -> ArmPyl
      [] aa = "Gly" -> ArmGly
      [] aa = "Ala" -> ArmAla
      [] aa = "Pro" -> ArmPro
      [] aa = "Val" -> ArmVal
      [] aa = "Leu" -> ArmLeu
      [] aa = "Met" -> ArmMet
      [] aa = "Phe" -> ArmPhe
      [] aa = "Tyr" -> ArmTyr
      [] aa = "Cys" -> ArmCys(index, links)
      [] aa = "Ser" -> ArmSer
      [] aa = "Sec" -> ArmSec
      [] aa = "Thr" -> ArmThr(index, links)
      [] aa = "Asn" -> ArmAsn
      [] aa = "Gln" -> ArmGln
      [] aa = "Arg" -> ArmArg
      [] aa = "Lys" -> ArmLys
      [] aa = "His" -> ArmHis
      [] aa = "Asp" -> ArmAsp
      [] aa = "Glu" -> ArmGlu
      [] aa = "Ile" -> ArmIle
      [] aa = "Trp" -> ArmTrp

\* the guard at the top of visit_residue: only Thr and Cys can carry a link
GuardFails(aa, index, links) ==
    aa # "Thr" /\ aa # "Cys" /\ HasKey(links, index)

\* a visit_residue whose Thr arm has no `None` case: a threonine without an
\* entry falls into the rejecting arm
visit_residue_no_plain_thr(aa, index, links) ==
    IF GuardFails(aa, index, links)
      THEN [res |-> InvalidCrossLink(index, aa, links[index].link), ins |-> << >>]
    ELSE IF aa = "Thr" /\ ~HasKey(links, index)
      THEN [res |-> InvalidCrossLink(index, aa, NoCall),
            ins |-> <<El(CARBON_TH2), El(CARBON_TH2)>>]
    ELSE IF aa = "Thr" /\ ThrFails(index, links)
      THEN [res |-> InvalidCrossLink(index, aa, links[index].link),
            ins |-> ArmThr(index, links)]
    ELSE [res |-> ResOk, ins |-> Arm(aa, index, links) \o <<El(AliphaticC)>>]

\* visit_residue(aa, follower, index, cross_links): the returned value and
\* the instructions sent to the follower before returning
visit_residue(aa, index, links) ==
    IF GuardFails(aa, index, links)
      THEN [res |-> InvalidCrossLink(index, aa, links[index].link), ins |-> << >>]
    ELSE IF aa = "Thr" /\ ThrFails(index, links)
      THEN [res |-> InvalidCrossLink(index, aa, links[index].link),
            ins |-> ArmThr(index, links)]
    ELSE [res |-> ResOk, ins |-> Arm(aa, index, links) \o <<El(AliphaticC)>>]

----------------------------------------------------------------------------
(* Protein::visit *)

\* an instruction as recorded by the follower, with its provenance: `at` is
\* the 1-based position of the residue being visited (its place in the
\* enumeration, whatever index visit_residue was given) and `by` the part of
\* visit that issued it ("start": N-terminus, "amide": the next backbone
\* nitrogen, "residue": visit_residue, "carboxy": the carbonyl oxygen and
\* the pop after it, "end": C-terminus)
Tagged(ins, at, by) ==
    [k \in 1..Len(ins) |->
        [op |-> ins[k].op, bond |-> ins[k].bond, atom |-> ins[k].atom,
         num |-> ins[k].num, at |-> at, by |-> by]]

\* the index of the enumeration passed on as it is, without the + 1
IndexOfZeroBased(k) == (k - 1) % U16

\* `index as u16 + 1` for the k-th item of the enumeration (k counted from 1)
IndexOf(k) == ((k - 1) % U16) + 1

\* N-terminus: the root nitrogen, then the opening of ring 0 when cyclized
StartHook(cyc) ==
    <<Root(AliphaticN)>> \o (IF cyc = "HeadToTail" THEN <<Jn(0)>> ELSE << >>)

\* the carboxy group added after each residue
\* a carboxy group without the pop(1): the follower stays on the oxygen
CarboxyNoPop == <<Db(AliphaticO)>>

Carboxy == <<Db(AliphaticO), Pop(1)>>

\* a C-terminus that adds the acid's oxygen whatever the cyclization
EndHookAlwaysAcid(cyc) ==
    (IF cyc = "HeadToTail" THEN <<Jn(0)>> ELSE << >>) \o <<Extend("Single", AliphaticO)>>

\* C-terminus: the closing of ring 0 when cyclized, else the acid's oxygen
EndHook(cyc) ==
    IF cyc = "HeadToTail" THEN <<Jn(0)>> ELSE <<Extend("Single", AliphaticO)>>

\* `while let Some((index, aa)) = aa_iter.next()` from the k-th item on,
\* followed by the C-terminus; acc is what the follower has received so far
RECURSIVE visit_loop(_, _, _, _, _)

\* a loop that remembers the error of visit_residue but goes on with the
\* next residues and the C-terminus before returning it
RECURSIVE visit_loop_no_abort(_, _, _, _, _)
visit_loop_no_abort(seq, cyc, links, k, acc) ==
    IF k > Len(seq)
      THEN [res |-> ResOk, out |-> acc \o Tagged(EndHook(cyc), Len(seq), "end")]
    ELSE
      LET amide == Tagged(<<El(AliphaticN)>>, k, "amide")
          r == visit_residue(seq[k], IndexOf(k), links)
          rest == visit_loop_no_abort(seq, cyc, links, k + 1,
                          acc \o amide \o Tagged(r.ins, k, "residue")
                              \o Tagged(Carboxy, k, "carboxy"))
      IN  IF r.res # ResOk THEN [res |-> r.res, out |-> rest.out] ELSE rest

visit_loop(seq, cyc, links, k, acc) ==
    IF k > Len(seq)
      THEN [res |-> ResOk, out |-> acc \o Tagged(EndHook(cyc), Len(seq), "end")]
    ELSE
      LET amide == Tagged(<<El(AliphaticN)>>, k, "amide")
          r == visit_residue(seq[k], IndexOf(k), links)
      IN  IF r.res # ResOk
            THEN [res |-> r.res, out |-> acc \o amide \o Tagged(r.ins, k, "residue")]
          ELSE visit_loop(seq, cyc, links, k + 1,
                          acc \o amide \o Tagged(r.ins, k, "residue")
                              \o Tagged(Carboxy, k, "carboxy"))

\* a visit that sets up the N-terminus before asking the iterator for its
\* first item
visit_root_first(seq, cyc, links) ==
    IF Len(seq) = 0
      THEN [res |-> ResOk, out |-> Tagged(StartHook(cyc), 1, "start")]
    ELSE
      LET start == Tagged(StartHook(cyc), 1, "start")
          r == visit_residue(seq[1], IndexOf(1), links)
      IN  IF r.res # ResOk
            THEN [res |-> r.res, out |-> start \o Tagged(r.ins, 1, "residue")]
          ELSE visit_loop(seq, cyc, links, 2,
                          start \o Tagged(r.ins, 1, "residue")
                                \o Tagged(Carboxy, 1, "carboxy"))

\* Protein::visit(self, follower)
visit(seq, cyc, links) ==
    IF Len(seq) = 0
      THEN [res |-> ResOk, out |-> << >>]
    ELSE
      LET start == Tagged(StartHook(cyc), 1, "start")
          r == visit_residue(seq[1], IndexOf(1), links)
      IN  IF r.res # ResOk
            THEN [res |-> r.res, out |-> start \o Tagged(r.ins, 1, "residue")]
          ELSE visit_loop(seq, cyc, links, 2,
                          start \o Tagged(r.ins, 1, "residue")
                                \o Tagged(Carboxy, 1, "carboxy"))

----------------------------------------------------------------------------
(* Initial states: the Protein as Protein::new leaves it *)

RECURSIVE SeqsUpTo(_, _)
SeqsUpTo(S, n) ==
    IF n = 0 THEN {<< >>}
    ELSE LET shorter == SeqsUpTo(S, n - 1)
         IN  shorter \cup {Append(s, a) : s \in {t \in shorter : Len(t) = n - 1}, a \in S}

\* Protein::new(sequence), and the history variables before any call
New(seq) ==
    /\ sequence = seq
    /\ cyclization = "None"
    /\ cross_links = EmptyMap
    /\ cross_link_num = FirstCrossLinkNum
    /\ pc = "construct"
    /\ out = << >>
    /\ res = NoRes
    /\ call = NoCall
    /\ ret = NoRet
    /\ pre = EmptyMap
    /\ preNum = FirstCrossLinkNum
    /\ nCalls = 0
    /\ nOk = 0

\* the residues of the traversal specification: the two that can carry a
\* link, one that cannot, and one whose recipe joins a ring on the backbone
\* nitrogen
SampleResidues == {"Cys", "Thr", "Ala", "Pro"}

\* every residue variant alone
Singles == {<<a>> : a \in AminoAcid}

Init == \E seq \in SeqsUpTo(SampleResidues, MaxLen) \cup Singles : New(seq)

\* the registry never reads the sequence: the one of the DuplicateCrossLink doc test
InitReg == New(<<"Cys", "Cys", "Cys">>)

----------------------------------------------------------------------------
(* Actions *)

\* Protein::cyclization(&mut self, cyclization)
SetCyclization ==
    /\ pc = "construct"
    /\ \E c \in CyclizationModes : cyclization' = c
    /\ UNCHANGED <<sequence, cross_links, cross_link_num, pc, out, res,
                   call, ret, pre, preNum, nCalls, nOk>>

\* cross_link with any link over the positions 1..MaxVisitPos
CrossLinkVisit ==
    /\ nCalls < MaxVisitCalls
    /\ \E x \in Links(MaxVisitPos) : cross_link(x)
    /\ nCalls' = nCalls + 1

\* the positions of the arbitrary links of the registry specification
ProbePositions == {1, 2, 3}

ProbeLinks ==
    {CrossLink(k, a, b) : k \in CrossLinkKinds, a \in ProbePositions, b \in ProbePositions}

\* a link between the next two positions that no call has used yet
FreshLink ==
    CrossLink("Cystine", 2 * nOk + Cardinality(ProbePositions) + 1,
                         2 * nOk + Cardinality(ProbePositions) + 2)

\* cross_link with a link between two fresh positions, before any arbitrary link
CrossLinkFresh ==
    /\ nCalls = 0
    /\ cross_link(FreshLink)
    /\ UNCHANGED nCalls

\* the arbitrary links are tried on a new Protein and on one that is within
\* MaxCalls markers of running out of them
ProbeWindow ==
    nCalls > 0 \/ nOk = 0 \/ cross_link_num + MaxCalls > RnumMax

\* cross_link with an arbitrary link over ProbePositions
CrossLinkProbe ==
    /\ nCalls < MaxCalls
    /\ ProbeWindow
    /\ \E x \in ProbeLinks : cross_link(x)
    /\ nCalls' = nCalls + 1

\* Protein::visit(self, follower): consumes the Protein
Visit ==
    /\ pc = "construct"
    /\ LET v == visit(sequence, cyclization, cross_links)
       IN  /\ out' = v.out
           /\ res' = v.res
    /\ pc' = "done"
    /\ UNCHANGED <<sequence, cyclization, cross_links, cross_link_num,
                   call, ret, pre, preNum, nCalls, nOk>>

\* construction then traversal, on short sequences
Next == CrossLinkVisit \/ SetCyclization \/ Visit
Spec == Init /\ [][Next]_vars

\* the construction phase alone: links between fresh positions, then up to
\* MaxCalls arbitrary links
NextReg == CrossLinkFresh \/ CrossLinkProbe
SpecReg == InitReg /\ [][NextReg]_vars

\* the residues that have a cross-link recipe, and one that has none
PairResidues == {"Cys", "Thr", "Ala"}

\* Protein::new on a sequence of up to PairLen of them
InitPair == \E seq \in SeqsUpTo(PairResidues, PairLen) : New(seq)

\* cross_link with any link over the positions 1..PairLen
CrossLinkPair ==
    /\ nCalls < PairCalls
    /\ \E x \in Links(PairLen) : cross_link(x)
    /\ nCalls' = nCalls + 1

\* several registrations, then the traversal of the bridged residues
NextPair == CrossLinkPair \/ Visit
SpecPair == InitPair /\ [][NextPair]_vars

\* the residues that from_code1 yields, each alone
Coded == {<<from_code1(c)>> : c \in {d \in Code1Chars : from_code1(d) # UnknownResidue}}

\* every two residue variants in a row
Pairs == {<<a, b>> : a \in AminoAcid, b \in AminoAcid}

\* Protein::new on one residue or on two
InitCatalog == \E seq \in Coded \cup Singles \cup Pairs : New(seq)

\* the positions of a sequence of two
CatalogPositions == {1, 2}

\* cross_link with any link over them
CrossLinkCatalog ==
    /\ nCalls < MaxVisitCalls
    /\ \E x \in {CrossLink(k, a, b) : k \in CrossLinkKinds,
                                      a \in CatalogPositions, b \in CatalogPositions} :
           cross_link(x)
    /\ nCalls' = nCalls + 1

\* every recipe, alone and after every other recipe
NextCatalog == CrossLinkCatalog \/ SetCyclization \/ Visit
SpecCatalog == InitCatalog /\ [][NextCatalog]_vars

----------------------------------------------------------------------------
(* Properties of Protein::cross_link *)

\* no position
NoPos == 0 - 1

\* the first endpoint of x, in the order i then j, that m maps
FirstMapped(x, m) ==
    IF HasKey(m, x.i) THEN x.i ELSE IF HasKey(m, x.j) THEN x.j ELSE NoPos

\* a cross_link call has been made
Called == ret # NoRet

\* C1 as stated: after any sequence of cross_link calls, a call with an
\* endpoint that is already mapped returns Err(DuplicateCrossLink(k)), k the
\* first of its endpoints (i then j) that is mapped.
C1_DuplicateAlways ==
    (Called /\ FirstMapped(call, pre) # NoPos)
        => ret = DuplicateCrossLink(FirstMapped(call, pre))

\* C1 amended: while the counter still converts to a ring number
\* (cross_link_num <= 99), a call with an endpoint that is already mapped
\* returns Err(DuplicateCrossLink(k)), k the first of its endpoints (i then
\* j) that is mapped.
C1_DuplicateWhileMarkersLeft ==
    (Called /\ preNum <= RnumMax /\ FirstMapped(call, pre) # NoPos)
        => ret = DuplicateCrossLink(FirstMapped(call, pre))

\* C1 witness: a second, different link names a position the first one
\* claimed, its other endpoint being free, and fails on that position
C1_Witness ==
    /\ ret = DuplicateCrossLink(call.j)
    /\ call.i # call.j
    /\ ~HasKey(pre, call.i)
    /\ HasKey(pre, call.j)
    /\ pre[call.j].link # call

\* C2 as stated: a call that returns Err(DuplicateCrossLink(_)) leaves the
\* (marker, CrossLink) of every position that had an entry as it was.
C2_FailedCallOverwritesNothing ==
    ret.tag = "DuplicateCrossLink"
        => \A p \in DOMAIN pre : HasKey(cross_links, p) /\ cross_links[p] = pre[p]

\* C3 as stated: a call made when the counter does not convert to a ring
\* number returns Err(TooManyCrossLinks) with the position map untouched,
\* and no call panics.
C3_TooManyCrossLinksReturned ==
    /\ ret # Panic
    /\ (Called /\ preNum > RnumMax) => (ret = TooManyCrossLinks /\ cross_links = pre)

\* C4: the counter is 3 plus the number of calls that returned Ok, a call
\* that did not return Ok leaves the counter as it was, and the k-th call
\* that returned Ok stored marker 3 + (k - 1) at both of its endpoints.
C4_MarkerAllocation ==
    /\ cross_link_num = FirstCrossLinkNum + nOk
    /\ (Called /\ ret # RetOk) => cross_link_num = preNum
    /\ ret = RetOk =>
          /\ HasKey(cross_links, call.i)
          /\ HasKey(cross_links, call.j)
          /\ cross_links[call.i] = [rnum |-> FirstCrossLinkNum + (nOk - 1), link |-> call]
          /\ cross_links[call.j] = [rnum |-> FirstCrossLinkNum + (nOk - 1), link |-> call]

\* C4 witness: a call returned Ok, not the first to do so, after a failed
\* call had left an entry carrying the marker that was then current
C4_Witness ==
    /\ ret = RetOk
    /\ nOk >= 2
    /\ \E p \in DOMAIN pre : pre[p].rnum = preNum

\* C5 as stated: when the first endpoint of the link is free and the second
\* is mapped, the call returns Err(DuplicateCrossLink(j)), the first endpoint
\* then maps to (the counter, the link) and the second does not map to the link.
C5_OnlyFirstEndpointMapped ==
    (Called /\ ~HasKey(pre, call.i) /\ HasKey(pre, call.j))
        => /\ ret = DuplicateCrossLink(call.j)
           /\ HasKey(cross_links, call.i)
           /\ cross_links[call.i] = [rnum |-> preNum, link |-> call]
           /\ cross_links[call.j].link # call

----------------------------------------------------------------------------
(* The follower as a stack of attachment atoms: an atom is named by the     *)
(* place in `out` of the instruction that created it                        *)

\* the stack after the first k instructions of ins: root and extend push
\* the atom they create, join leaves the stack alone, pop(n) removes n atoms
RECURSIVE FollowerStack(_, _)
FollowerStack(ins, k) ==
    IF k = 0 THEN << >>
    ELSE LET st == FollowerStack(ins, k - 1)
         IN  CASE ins[k].op = "root" -> <<k>>
               [] ins[k].op = "extend" -> Append(st, k)
               [] ins[k].op = "join" -> st
               [] ins[k].op = "pop" ->
                    IF ins[k].num <= Len(st) THEN SubSeq(st, 1, Len(st) - ins[k].num)
                    ELSE << >>

\* the atom the k-th instruction of ins acts on (0: none)
CurrentAtom(ins, k) ==
    LET st == FollowerStack(ins, k - 1)
    IN  IF Len(st) = 0 THEN 0 ELSE st[Len(st)]

\* C18: after any sequence of cross_link calls, two entries of the registry
\* that hold the same ring hold the same cross-link.
C18_RingNeverShared ==
    \A p \in DOMAIN cross_links, q \in DOMAIN cross_links :
        cross_links[p].rnum = cross_links[q].rnum
            => cross_links[p].link = cross_links[q].link

----------------------------------------------------------------------------
(* Properties of Protein::visit *)

Visited == pc = "done"

\* the places in `out` of the joins on ring r
Joins(r) == {k \in DOMAIN out : out[k].op = "join" /\ out[k].num = r}

\* the places in `out` of the instructions issued for position p
At(p) == {k \in DOMAIN out : out[k].at = p}

\* the place in `out` of the backbone carbonyl carbon of the residue at
\* position p: the last atom visit_residue extends to (0: not emitted)
CarbonylCarbon(p) ==
    LET ks == {k \in At(p) : out[k].by = "residue"}
    IN  IF ks = {} THEN 0 ELSE CHOOSE k \in ks : \A j \in ks : j <= k

\* C6 as stated: when N cross_link calls were made and all returned Ok, a
\* traversal that returns Ok joins each of the rings 3 .. 3+N-1 exactly twice
\* and joins no ring >= 3+N.
C6_EachMarkerJoinedTwice ==
    (Visited /\ res = ResOk /\ nCalls = nOk)
        => /\ \A r \in FirstCrossLinkNum .. (FirstCrossLinkNum + nOk - 1) :
                  Cardinality(Joins(r)) = 2
           /\ \A k \in DOMAIN out :
                  out[k].op = "join" => out[k].num < FirstCrossLinkNum + nOk

\* C7: the traversal of an empty sequence sends nothing to the follower and
\* returns Ok, whatever the cyclization and the registry.
C7_EmptySequence ==
    (Visited /\ Len(sequence) = 0) => (out = << >> /\ res = ResOk)

\* C7 witness: an empty sequence was traversed with head-to-tail cyclization
\* and a registered link
C7_Witness ==
    /\ Visited
    /\ Len(sequence) = 0
    /\ cyclization = "HeadToTail"
    /\ cross_links # EmptyMap

\* C8: a traversal of a non-empty sequence that returns Ok, when cyclized
\* head to tail, joins ring 0 exactly twice, right after the root nitrogen
\* and as the last instruction, on the carbonyl carbon of the last residue,
\* and extends to no atom by a Single bond; when not cyclized it never joins
\* ring 0 and its last instruction extends the carbonyl carbon of the last
\* residue by a Single bond to an oxygen.
C8_Termini ==
    (Visited /\ res = ResOk /\ Len(sequence) >= 1)
        => LET n == Len(out) IN
           /\ out[1].op = "root" /\ out[1].atom = AliphaticN
           /\ CurrentAtom(out, n) = CarbonylCarbon(Len(sequence))
           /\ CarbonylCarbon(Len(sequence)) # 0
           /\ IF cyclization = "HeadToTail"
                THEN /\ Joins(0) = {2, n}
                     /\ n > 2
                     /\ \A k \in DOMAIN out : out[k].bond # "Single"
                ELSE /\ Joins(0) = {}
                     /\ out[n].op = "extend"
                     /\ out[n].bond = "Single"
                     /\ out[n].atom = AliphaticO
                     /\ \A k \in 1..(n - 1) : out[k].bond # "Single"

\* C8 witness: a cyclized traversal of two residues returned Ok, the first
\* residue joining a ring of its own on the root nitrogen
C8_Witness ==
    /\ Visited
    /\ res = ResOk
    /\ cyclization = "HeadToTail"
    /\ Len(sequence) = 2
    /\ sequence[1] = "Pro"
    /\ cross_links # EmptyMap

\* a position of the sequence whose residue is neither Cys nor Thr and that
\* has an entry in the registry
ForeignEntry(p) ==
    /\ p \in 1..Len(sequence)
    /\ sequence[p] \notin {"Cys", "Thr"}
    /\ HasKey(cross_links, p)

\* C9: when the traversal reaches a position p whose residue is neither Cys
\* nor Thr and that has an entry (m, link), it returns
\* Err(InvalidCrossLink(p, residue, link)) and visit_residue has sent no
\* instruction for that residue.
C9_ForeignResidueRejected ==
    Visited =>
        \A p \in 1..Len(sequence) :
            (ForeignEntry(p) /\ At(p) # {})
                => /\ res = InvalidCrossLink(p, sequence[p], cross_links[p].link)
                   /\ \A k \in At(p) : out[k].by # "residue"

\* C9 witness: Cystine(1, 2) on [Ala, Ala] gave InvalidCrossLink(1, Ala, Cystine(1, 2))
C9_Witness ==
    /\ Visited
    /\ sequence = <<"Ala", "Ala">>
    /\ call = CrossLink("Cystine", 1, 2)
    /\ ret = RetOk
    /\ res = InvalidCrossLink(1, "Ala", CrossLink("Cystine", 1, 2))

\* a position whose residue visit_residue rejects with the entry registered
\* at it: any residue other than Cys and Thr, and Thr under a link that is
\* not MeLan
Unsupported(p) ==
    /\ p \in 1..Len(sequence)
    /\ HasKey(cross_links, p)
    /\ \/ sequence[p] \notin {"Cys", "Thr"}
       \/ sequence[p] = "Thr" /\ cross_links[p].link.kind # "MeLan"

\* the residue at position q was emitted completely: its carbonyl carbon,
\* the carbonyl oxygen and the pop back to the carbon
EmittedCompletely(q) ==
    \E k \in At(q) :
        /\ k = CarbonylCarbon(q)
        /\ out[k].op = "extend" /\ out[k].atom = AliphaticC
        /\ k + 2 <= Len(out)
        /\ out[k + 1].op = "extend" /\ out[k + 1].bond = "Double"
        /\ out[k + 1].atom = AliphaticO /\ out[k + 1].at = q
        /\ out[k + 2].op = "pop" /\ out[k + 2].num = 1 /\ out[k + 2].at = q

----------------------------------------------------------------------------
(* Properties of the cross-link recipes of Cys and Thr *)

\* positions a and b of the sequence, a # b, both carry the link kind(a, b)
Bridge(kind, a, b) ==
    /\ a \in 1..Len(sequence)
    /\ b \in 1..Len(sequence)
    /\ a # b
    /\ HasKey(cross_links, a)
    /\ HasKey(cross_links, b)
    /\ cross_links[a].link = CrossLink(kind, a, b)
    /\ cross_links[b].link = CrossLink(kind, a, b)

\* the places in `out` of what visit_residue sent for position p
RecipeAt(p) == {k \in At(p) : out[k].by = "residue"}

\* the sulfurs the residue at position p emitted
SulfursAt(p) ==
    {k \in RecipeAt(p) : out[k].op = "extend" /\ out[k].atom = AliphaticS}

\* the joins of the residue at position p on ring r
JoinsAt(p, r) == RecipeAt(p) \cap Joins(r)

\* the first atom of the residue at position p (0: none)
FirstAtom(p) ==
    IF RecipeAt(p) = {} THEN 0 ELSE CHOOSE k \in RecipeAt(p) : \A j \in RecipeAt(p) : k <= j

\* the beta carbon of a Cys or Thr at position p: the atom after the alpha carbon
BetaCarbon(p) == FirstAtom(p) + 1

\* no position of the sequence is rejected by visit_residue
AllSupported == \A q \in 1..Len(sequence) : ~Unsupported(q)

\* C11 as stated: with Lan(a, b) registered inside the sequence, a Cys at a
\* and a Thr at b are traversed with Ok, one sulfur being emitted, by a, and
\* the Thr closing the ring on its beta carbon.
C11_LanCysThr ==
    \A a \in 1..Len(sequence), b \in 1..Len(sequence) :
        (Visited /\ Bridge("Lan", a, b) /\ sequence[a] = "Cys" /\ sequence[b] = "Thr"
                 /\ \A q \in 1..Len(sequence) : q # b => ~Unsupported(q))
            => /\ res = ResOk
               /\ Cardinality(SulfursAt(a) \cup SulfursAt(b)) = 1

\* C11 amended: with Lan(a, b) registered inside the sequence, the traversal
\* returns Ok only if the residues at a and at b are both Cys, and does
\* return Ok for such a pair when no other position is rejected; then a
\* emits the one sulfur of the bridge and joins the ring registered at a on
\* it, and b emits no sulfur and joins the ring registered at b on its beta
\* carbon.
C11_LanCysCys ==
    \A a \in 1..Len(sequence), b \in 1..Len(sequence) :
        (Visited /\ Bridge("Lan", a, b))
            => /\ res = ResOk => (sequence[a] = "Cys" /\ sequence[b] = "Cys")
               /\ (sequence[a] = "Cys" /\ sequence[b] = "Cys" /\ AllSupported)
                     => res = ResOk
               /\ res = ResOk =>
                     /\ Cardinality(SulfursAt(a)) = 1
                     /\ SulfursAt(b) = {}
                     /\ \E k \in JoinsAt(a, cross_links[a].rnum) :
                            CurrentAtom(out, k) \in SulfursAt(a)
                     /\ \E k \in JoinsAt(b, cross_links[b].rnum) :
                            CurrentAtom(out, k) = BetaCarbon(b)

\* C11 witness: Lan(2, 1) on [Cys, Cys] was traversed with Ok
C11_Witness ==
    /\ Visited
    /\ res = ResOk
    /\ sequence = <<"Cys", "Cys">>
    /\ Bridge("Lan", 2, 1)

\* no position other than a and b is rejected by visit_residue
OthersSupported(a, b) ==
    \A q \in 1..Len(sequence) : q \notin {a, b} => ~Unsupported(q)

\* C12: with MeLan(a, b) registered inside the sequence, the traversal
\* returns Ok only if the residue at a is Cys and the residue at b is Thr;
\* Cys/Cys, Thr/Thr and Thr at a with Cys at b end with InvalidCrossLink.
C12_MeLanEndpoints ==
    \A a \in 1..Len(sequence), b \in 1..Len(sequence) :
        (Visited /\ Bridge("MeLan", a, b))
            => /\ res = ResOk => (sequence[a] = "Cys" /\ sequence[b] = "Thr")
               /\ ( /\ {sequence[a], sequence[b]} \subseteq {"Cys", "Thr"}
                    /\ ~(sequence[a] = "Cys" /\ sequence[b] = "Thr")
                    /\ OthersSupported(a, b) )
                     => res.tag = "InvalidCrossLink"

\* C13: with Cystine(a, b) registered inside the sequence and no other
\* position rejected, the traversal returns Ok exactly when the residues at
\* a and b are both Cys; when it returns Ok each of the two emits one sulfur
\* and joins the ring they share on it, and that ring is joined exactly
\* twice.
C13_CystineBridge ==
    \A a \in 1..Len(sequence), b \in 1..Len(sequence) :
        (Visited /\ Bridge("Cystine", a, b))
            => /\ OthersSupported(a, b)
                     => (res = ResOk <=> (sequence[a] = "Cys" /\ sequence[b] = "Cys"))
               /\ res = ResOk =>
                     /\ cross_links[a].rnum = cross_links[b].rnum
                     /\ \A p \in {a, b} :
                            /\ Cardinality(SulfursAt(p)) = 1
                            /\ \E k \in JoinsAt(p, cross_links[p].rnum) :
                                   CurrentAtom(out, k) \in SulfursAt(p)
                     /\ Cardinality(Joins(cross_links[a].rnum)) = 2

----------------------------------------------------------------------------
(* Properties of the backbone *)

\* the instructions that visit itself sends, outside visit_residue
Backbone == {k \in DOMAIN out : out[k].by # "residue"}

\* C16: in a traversal of n >= 1 residues that returns Ok, the only root is
\* the first instruction, a nitrogen; each residue's carbonyl carbon is
\* followed by extend(Double, O) and pop(1), which leave the follower on that
\* carbon; each residue but the first starts right after an extend(Elided, N)
\* made from the previous residue's carbonyl carbon; the backbone holds n
\* nitrogens, n double-bonded oxygens and n - 1 extends to a nitrogen, in the
\* order of the sequence.
C16_BackboneStitching ==
    (Visited /\ res = ResOk /\ Len(sequence) >= 1)
        => LET n == Len(sequence)
           IN  /\ {k \in DOMAIN out : out[k].op = "root"} = {1}
               /\ out[1].atom = AliphaticN
               /\ \A p \in 1..n :
                      LET c == CarbonylCarbon(p)
                      IN  /\ c # 0
                          /\ c + 2 <= Len(out)
                          /\ out[c + 1].op = "extend" /\ out[c + 1].bond = "Double"
                          /\ out[c + 1].atom = AliphaticO
                          /\ out[c + 2].op = "pop" /\ out[c + 2].num = 1
                          /\ CurrentAtom(out, c + 3) = c
               /\ \A p \in 2..n :
                      LET f == FirstAtom(p)
                      IN  /\ f > 1
                          /\ out[f - 1].op = "extend" /\ out[f - 1].bond = "Elided"
                          /\ out[f - 1].atom = AliphaticN
                          /\ CurrentAtom(out, f - 1) = CarbonylCarbon(p - 1)
                          /\ CarbonylCarbon(p - 1) < f
               /\ Cardinality({k \in Backbone : out[k].atom = AliphaticN}) = n
               /\ Cardinality({k \in Backbone : out[k].op = "extend"
                                                  /\ out[k].atom = AliphaticN}) = n - 1
               /\ Cardinality({k \in Backbone : out[k].bond = "Double"
                                                  /\ out[k].atom = AliphaticO}) = n

\* C16 witness: two residues were traversed with Ok and the second one
\* starts from a nitrogen extended from the first one's carbonyl carbon
C16_Witness ==
    /\ Visited
    /\ res = ResOk
    /\ sequence = <<"Pro", "Thr">>
    /\ CurrentAtom(out, FirstAtom(2) - 1) = CarbonylCarbon(1)

----------------------------------------------------------------------------
(* Properties of every recipe *)

\* C14: with an empty registry the traversal returns Ok for every sequence
\* and both cyclizations and emits every residue completely; exactly 22
\* characters have a residue by from_code1, each a residue variant.
C14_EmptyRegistryOk ==
    /\ Cardinality({c \in Code1Chars : from_code1(c) # UnknownResidue}) = 22
    /\ \A c \in Code1Chars :
           from_code1(c) # UnknownResidue => from_code1(c) \in AminoAcid
    /\ (Visited /\ cross_links = EmptyMap)
          => /\ res = ResOk
             /\ \A q \in 1..Len(sequence) : EmittedCompletely(q)

\* C14 witness: tryptophan, the residue of the code W, was traversed after
\* threonine in a head-to-tail protein with an empty registry
C14_Witness ==
    /\ Visited
    /\ cross_links = EmptyMap
    /\ cyclization = "HeadToTail"
    /\ sequence = <<from_code1("T"), from_code1("W")>>
    /\ res = ResOk

\* visit_residue returned Ok for position p: visit went on to its carbonyl oxygen
Succeeded(p) ==
    /\ p \in 1..Len(sequence)
    /\ \E k \in At(p) : out[k].by = "carboxy"

\* the backbone nitrogen of the residue at position p: the root, or the
\* atom visit extends to before calling visit_residue
BackboneNitrogen(p) ==
    CHOOSE k \in At(p) : out[k].by \in {"start", "amide"} /\ out[k].op \in {"root", "extend"}

\* the alpha carbon of the residue at position p: the first atom of its
\* recipe, for proline the atom after the three ring carbons
AlphaCarbon(p) ==
    IF sequence[p] = "Pro" THEN FirstAtom(p) + 4 ELSE FirstAtom(p)

\* the atoms on the follower's stack after the first k instructions
OnStack(k) == LET st == FollowerStack(out, k) IN {st[i] : i \in DOMAIN st}

\* C15: in every residue whose recipe succeeded, after each pop of the
\* recipe the residue's alpha carbon (for proline, its backbone nitrogen) is
\* still on the follower's stack, and the recipe ends by extending from the
\* alpha carbon to the carbonyl carbon, which is the current atom when
\* visit_residue returns.
C15_RetreatsStayInResidue ==
    \A p \in 1..Len(sequence) :
        (Visited /\ Succeeded(p))
            => /\ \A k \in RecipeAt(p) :
                      out[k].op = "pop" =>
                          IF sequence[p] = "Pro"
                            THEN BackboneNitrogen(p) \in OnStack(k)
                          ELSE AlphaCarbon(p) \in OnStack(k)
               /\ LET c == CarbonylCarbon(p)
                  IN  /\ c \in RecipeAt(p)
                      /\ \A k \in RecipeAt(p) : k <= c
                      /\ out[c].op = "extend" /\ out[c].atom = AliphaticC
                      /\ out[AlphaCarbon(p)].op = "extend"
                      /\ AlphaCarbon(p) \in RecipeAt(p)
                      /\ CurrentAtom(out, c) = AlphaCarbon(p)
                      /\ CurrentAtom(out, c + 1) = c

\* C15 witness: the second cysteine of a Lan, whose recipe retreats by one
\* atom only, was traversed after the first, both with Ok
C15_Witness ==
    /\ Visited
    /\ res = ResOk
    /\ sequence = <<"Cys", "Cys">>
    /\ Bridge("Lan", 1, 2)
    /\ \E k \in RecipeAt(2) : out[k] = Tagged(<<Pop(1)>>, 2, "residue")[1]

\* the rings visit_residue joins without looking at the registry
ReservedRings == {1, 2}

\* C17: every ring stored in the registry is at least 3; each residue whose
\* recipe succeeded joins ring 1 twice or never, and ring 2 twice or never,
\* and a residue whose recipe failed joins neither; ring 0 is joined by the
\* start and end of the traversal only, and recipes join rings of the
\* registry besides 1 and 2 only.
C17_ReservedRings ==
    /\ \A p \in DOMAIN cross_links : cross_links[p].rnum >= FirstCrossLinkNum
    /\ Visited =>
          /\ \A p \in 1..Len(sequence), r \in ReservedRings :
                 /\ Cardinality(JoinsAt(p, r)) \in {0, 2}
                 /\ ~Succeeded(p) => JoinsAt(p, r) = {}
                 /\ Joins(r) \cap At(p) = JoinsAt(p, r)
          /\ \A k \in Joins(0) : out[k].by \in {"start", "end"}
          /\ \A k \in DOMAIN out :
                 (out[k].op = "join" /\ out[k].by = "residue")
                     => \/ out[k].num \in ReservedRings
                        \/ /\ HasKey(cross_links, out[k].at)
                           /\ out[k].num = cross_links[out[k].at].rnum
                           /\ out[k].num >= FirstCrossLinkNum

\* C17 witness: a head-to-tail traversal of a registered cysteine followed
\* by a tryptophan joined ring 0 twice, ring 3 once in the cysteine, and
\* rings 1 and 2 twice each in the tryptophan
C17_Witness ==
    /\ Visited
    /\ res = ResOk
    /\ sequence = <<"Cys", "Trp">>
    /\ Cardinality(Joins(0)) = 2
    /\ Cardinality(JoinsAt(1, FirstCrossLinkNum)) = 1
    /\ Cardinality(JoinsAt(2, 1)) = 2
    /\ Cardinality(JoinsAt(2, 2)) = 2

====
